---- MODULE Spec2Model ----
(***************************************************************************)
(* kaiserlift: the Dominance Filter (highest_weight_per_rep), the Target   *)
(* Synthesizer (dougs_next_pareto) and the Metric Converter                *)
(* (calculate_1rm / estimate_weight_from_1rm) of src/kaiserlift/main.py.   *)
(*                                                                         *)
(* A DataFrame is a sequence of rows; a row carries its index label (idx)  *)
(* and the columns Exercise, Weight and Reps.  A cell of a numeric column  *)
(* is [kind, val, half]: kind "num" is the number val + half/2 (half is 1  *)
(* only for a fractional Reps such as 2.5), kind "nan" is a missing cell   *)
(* and kind "text" a cell that holds a non-numeric string.                 *)
(*                                                                         *)
(* Two specifications: Spec runs the Dominance Filter and the Target       *)
(* Synthesizer on a DataFrame, SpecConverter runs the Metric Converter on  *)
(* a pair of arguments.                                                    *)
(***************************************************************************)
EXTENDS Integers, Sequences, FiniteSets, TLC

VARIABLES
    df,           \* the input DataFrame
    df_records,   \* highest_weight_per_rep(df)
    df_targets,   \* dougs_next_pareto(df_records)
    df_again,     \* highest_weight_per_rep(df_records)
    rm_cache,     \* calculate_1rm of the values a target can hold, computed
                  \* once (the float arithmetic is costly to evaluate)
    value,        \* first argument of the converter (weight or one_rm)
    reps,         \* second argument of the converter
    first,        \* what the first conversion returned
    second,       \* what the conversion back returned
    calls,        \* the functions called so far in a pipeline invocation
    viewer,       \* the local variables of gen_html_viewer
    pc

vars == <<df, df_records, df_targets, df_again, rm_cache,
          value, reps, first, second, calls, viewer, pc>>

(***************************************************************************)
(* Bounds of the model and the values the inputs are drawn from.           *)
(***************************************************************************)
\* rows of the input DataFrame, and the largest Reps in it
MaxRows == 3
MaxReps == 4
\* the largest weight (or one_rm) and reps given to the converter
MaxLift == 12
MaxSetReps == 12

\* the fixed step of the Target Synthesizer (ws[0]+5, ws[i+1]+5)
Increment == 5

\* the divisor of the Epley formula (reps / 30.0)
EpleyDivisor == 30

ExerciseNames == <<"Bench Press", "Incline Bench Press">>
Exercises == {ExerciseNames[i] : i \in DOMAIN ExerciseNames}

\* the labels of a pipeline invocation, in sorted order: one more, with a
\* name that is not close to the other two
PipelineNames == ExerciseNames \o <<"Squat">>
PipelineExercises == {PipelineNames[i] : i \in DOMAIN PipelineNames}

\* weights: zero (bodyweight), one step, and just above one step, so that
\* two weights differ by less than, exactly, and more than the step
Weights == {0, Increment, Increment + 1}

\* whole Reps: two values one apart, and the largest one a gap away
RepValues == {1, 2, MaxReps}

Num(v) == [kind |-> "num", val |-> v, half |-> 0]
Frac(v) == [kind |-> "num", val |-> v, half |-> 1]
NaN == [kind |-> "nan", val |-> 0, half |-> 0]
Text == [kind |-> "text", val |-> 0, half |-> 0]

Row(i, e, w, r) == [idx |-> i, Exercise |-> e, Weight |-> w, Reps |-> r]

\* the columns of a regular record: whole Reps, numeric Weight
CleanCols ==
    {<<e, Num(w), Num(r)>> : e \in Exercises, w \in Weights, r \in RepValues}

\* the columns of an irregular record: fractional Reps (half a rep short of
\* a whole value: 0.5, 1.5, ...), or a missing or non-numeric Weight or Reps
IrregularCols ==
    {<<e, Num(w), Frac(r - 1)>> : e \in Exercises, w \in Weights, r \in RepValues}
    \cup {<<e, c, Num(1)>> : e \in Exercises, c \in {NaN, Text}}
    \cup {<<e, Num(Increment), c>> : e \in Exercises, c \in {NaN, Text}}

\* a DataFrame with the default index 0..n-1
Frame(cs) == [i \in 1..Len(cs) |-> Row(i - 1, cs[i][1], cs[i][2], cs[i][3])]

(***************************************************************************)
(* Helpers on sequences.                                                   *)
(***************************************************************************)
Range(s) == {s[i] : i \in DOMAIN s}

Min(a, b) == IF a < b THEN a ELSE b

(***************************************************************************)
(* Python float arithmetic: IEEE-754 binary64, round to nearest, ties to   *)
(* even, on the non-negative finite values.  A wide natural number (up to  *)
(* 120 bits) is a tuple of four limbs below LimbBase, lowest limb first.   *)
(***************************************************************************)
LimbBits == 30
LimbBase == 2 ^ LimbBits
\* bits of a binary64 significand
Precision == 53

WZero == <<0, 0, 0, 0>>
WOne == <<1, 0, 0, 0>>

\* 0 <= n < 2^31
WOfInt(n) == <<n % LimbBase, n \div LimbBase, 0, 0>>

WAdd(a, b) ==
    LET s1 == a[1] + b[1]
        s2 == a[2] + b[2] + (s1 \div LimbBase)
        s3 == a[3] + b[3] + (s2 \div LimbBase)
        s4 == a[4] + b[4] + (s3 \div LimbBase)
    IN <<s1 % LimbBase, s2 % LimbBase, s3 % LimbBase, s4 % LimbBase>>

\* a - b for a >= b
WSub(a, b) ==
    LET s1 == a[1] - b[1]
        s2 == a[2] - b[2] + (s1 \div LimbBase)
        s3 == a[3] - b[3] + (s2 \div LimbBase)
        s4 == a[4] - b[4] + (s3 \div LimbBase)
    IN <<s1 % LimbBase, s2 % LimbBase, s3 % LimbBase, s4 % LimbBase>>

WLess(a, b) ==
    IF a[4] # b[4] THEN a[4] < b[4]
    ELSE IF a[3] # b[3] THEN a[3] < b[3]
    ELSE IF a[2] # b[2] THEN a[2] < b[2]
    ELSE a[1] < b[1]

WHalf(a) ==
    LET top == LimbBase \div 2
    IN <<(a[1] \div 2) + (a[2] % 2) * top, (a[2] \div 2) + (a[3] % 2) * top,
         (a[3] \div 2) + (a[4] % 2) * top, a[4] \div 2>>

WIsOdd(a) == a[1] % 2 = 1

\* the number of bits of 0 <= n < 2^30
IntBitLen(n) == Cardinality({k \in 0..(LimbBits - 1) : 2 ^ k <= n})

WBitLen(a) ==
    IF a[4] # 0 THEN 3 * LimbBits + IntBitLen(a[4])
    ELSE IF a[3] # 0 THEN 2 * LimbBits + IntBitLen(a[3])
    ELSE IF a[2] # 0 THEN LimbBits + IntBitLen(a[2])
    ELSE IntBitLen(a[1])

\* bit i of a, bit 0 the lowest
WBit(a, i) == (a[(i \div LimbBits) + 1] \div (2 ^ (i % LimbBits))) % 2

\* a * 2^k for 0 <= k < LimbBits
WShlBits(a, k) ==
    LET lo == 2 ^ (LimbBits - k)
        hi == 2 ^ k
    IN <<(a[1] % lo) * hi,
         (a[2] % lo) * hi + (a[1] \div lo),
         (a[3] % lo) * hi + (a[2] \div lo),
         (a[4] % lo) * hi + (a[3] \div lo)>>

\* a * 2^(LimbBits * n)
WShlLimbs(a, n) ==
    [i \in 1..4 |-> IF i - n >= 1 THEN a[i - n] ELSE 0]

\* a * 2^k
WShl(a, k) == WShlLimbs(WShlBits(a, k % LimbBits), k \div LimbBits)

\* a \div 2^k for 0 <= k < LimbBits
WShrBits(a, k) ==
    LET lo == 2 ^ k
        hi == 2 ^ (LimbBits - k)
    IN <<(a[1] \div lo) + (a[2] % lo) * hi,
         (a[2] \div lo) + (a[3] % lo) * hi,
         (a[3] \div lo) + (a[4] % lo) * hi,
         a[4] \div lo>>

\* a \div 2^(LimbBits * n)
WShrLimbs(a, n) ==
    [i \in 1..4 |-> IF i + n <= 4 THEN a[i + n] ELSE 0]

\* a \div 2^k
WShr(a, k) == WShrBits(WShrLimbs(a, k \div LimbBits), k % LimbBits)

RECURSIVE MulBits(_, _, _, _)
\* a times the cnt bits of b from bit i upwards (in place)
MulBits(a, b, i, cnt) ==
    IF cnt = 1
    THEN IF WBit(b, i) = 1 THEN WShl(a, i) ELSE WZero
    ELSE WAdd(MulBits(a, b, i, cnt \div 2),
              MulBits(a, b, i + (cnt \div 2), cnt - (cnt \div 2)))

\* a * b for a, b below 2^60
WMul(a, b) == IF b = WZero \/ a = WZero THEN WZero ELSE MulBits(a, b, 0, WBitLen(b))

\* one step of long division of n * 2^k by d, at bit j: qr is <<quotient, remainder>>
DivStep(n, k, d, j, qr) ==
    LET bit == IF j >= k /\ WBit(n, j - k) = 1 THEN WOne ELSE WZero
        r2 == WAdd(WAdd(qr[2], qr[2]), bit)
        fits == ~WLess(r2, d)
    IN <<WAdd(WAdd(qr[1], qr[1]), IF fits THEN WOne ELSE WZero),
         IF fits THEN WSub(r2, d) ELSE r2>>

RECURSIVE DivSteps(_, _, _, _, _, _)
\* cnt steps of the long division, from bit j downwards
DivSteps(n, k, d, j, cnt, qr) ==
    IF cnt = 1 THEN DivStep(n, k, d, j, qr)
    ELSE LET half == cnt \div 2
             mid == DivSteps(n, k, d, j, half, qr)
         IN IF mid[1][1] >= 0
            THEN DivSteps(n, k, d, j - half, cnt - half, mid)
            ELSE mid

\* <<quotient, remainder>> of n * 2^k by d, for n below 2^bits
WDivMod(n, k, d, bits) == DivSteps(n, k, d, bits + k - 1, bits + k, <<WZero, WZero>>)

(***************************************************************************)
(* A float is [m, e]: the value m * 2^e with 2^52 <= m < 2^53, or zero     *)
(* (m = WZero, e = 0).                                                     *)
(***************************************************************************)
FZero == [m |-> WZero, e |-> 0]

\* the float nearest to (n + f) * 2^e, ties to even, where the fraction f
\* in [0, 1) is non-zero exactly if st
Round(n, st, e) ==
    IF n = WZero THEN FZero
    ELSE IF WBitLen(n) <= Precision
    THEN [m |-> WShl(n, Precision - WBitLen(n)), e |-> e - (Precision - WBitLen(n))]
    ELSE LET s == WBitLen(n) - Precision
             keep == WShr(n, s)
             rb == WBit(n, s - 1)
             sticky == st \/ WShl(WShr(n, s - 1), s - 1) # n
             up == rb = 1 /\ (sticky \/ WIsOdd(keep))
             m == IF up THEN WAdd(keep, WOne) ELSE keep
         IN IF WBitLen(m) > Precision
            THEN [m |-> WHalf(m), e |-> e + s + 1]
            ELSE [m |-> m, e |-> e + s]

\* 0 <= n < 2^31
FromInt(n) == Round(WOfInt(n), FALSE, 0)

FMul(a, b) ==
    IF a = FZero \/ b = FZero THEN FZero
    ELSE Round(WMul(a.m, b.m), FALSE, a.e + b.e)

\* a / b for b > 0
FDiv(a, b) ==
    IF a = FZero THEN FZero
    ELSE LET k == Precision + 2
             qr == WDivMod(a.m, k, b.m, Precision)
         IN Round(qr[1], qr[2] # WZero, a.e - b.e - k)

\* a + b for exponents less than 60 apart
FAdd(a, b) ==
    IF a = FZero THEN b
    ELSE IF b = FZero THEN a
    ELSE LET e == IF a.e < b.e THEN a.e ELSE b.e
         IN Round(WAdd(WShl(a.m, a.e - e), WShl(b.m, b.e - e)), FALSE, e)

FLess(a, b) ==
    IF b = FZero THEN FALSE
    ELSE IF a = FZero THEN TRUE
    ELSE IF a.e # b.e THEN a.e < b.e ELSE WLess(a.m, b.m)

\* the next float above a > 0
FSucc(a) == Round(WAdd(a.m, WOne), FALSE, a.e)

\* the next float below a > 0
FPred(a) ==
    IF a.m = WShl(WOne, Precision - 1)
    THEN [m |-> WSub(WShl(WOne, Precision), WOne), e |-> a.e - 1]
    ELSE [m |-> WSub(a.m, WOne), e |-> a.e]

(***************************************************************************)
(* Python scalars: an int or a float (its sign and its magnitude f, the    *)
(* magnitude of an int kept as the float of the same value), None, NaN,    *)
(* float('inf'), and the TypeError a comparison with None raises.          *)
(***************************************************************************)
PyInt(n) == [cls |-> "int", neg |-> n < 0, f |-> FromInt(IF n < 0 THEN -n ELSE n)]
PyFloat(f) == [cls |-> "float", neg |-> FALSE, f |-> f]
PyNone == [cls |-> "None", neg |-> FALSE, f |-> FZero]
np_nan == [cls |-> "nan", neg |-> FALSE, f |-> FZero]
PyInf == [cls |-> "inf", neg |-> FALSE, f |-> FZero]
TypeError == [cls |-> "TypeError", neg |-> FALSE, f |-> FZero]

IsNone(x) == x.cls = "None"
isnan(x) == x.cls = "nan"
IsNumber(x) == x.cls \in {"int", "float"}
\* x == 0, x > 0 and x < 0 on a number
IsZero(x) == IsNumber(x) /\ x.f = FZero
IsPositive(x) == IsNumber(x) /\ ~x.neg /\ x.f # FZero
IsNegative(x) == IsNumber(x) /\ x.neg /\ x.f # FZero
IsInf(x) == x.cls = "inf"
\* x > 0 on a number or float('inf')
GreaterThanZero(x) == IsPositive(x) \/ IsInf(x)
\* float(x) of a number or float('inf')
float(x) == IF IsInf(x) THEN x ELSE [x EXCEPT !.cls = "float"]
\* a == b on two numbers (an int and a float compare by value)
PyEq(a, b) == IsNumber(a) /\ IsNumber(b) /\ a.neg = b.neg /\ a.f = b.f

\* 1 + reps / 30.0
EpleyFactor(r) == FAdd(FromInt(1), FDiv(r, FromInt(EpleyDivisor)))

(***************************************************************************)
(* calculate_1rm and estimate_weight_from_1rm                              *)
(***************************************************************************)
\* the shortcut for one repetition left out
calculate_1rm_always_epley(weight, r) ==
    IF IsNone(weight) \/ IsNone(r) \/ isnan(weight) \/ isnan(r)
       \/ ~GreaterThanZero(r) \/ ~GreaterThanZero(weight)
    THEN IF IsZero(weight)
         THEN IF IsNone(r) THEN TypeError
              ELSE IF GreaterThanZero(r) THEN PyFloat(FZero) ELSE np_nan
         ELSE np_nan
    ELSE IF IsInf(weight) \/ IsInf(r) THEN PyInf
    ELSE PyFloat(FMul(weight.f, EpleyFactor(r.f)))

\* the factor of one repetition taken for every number of repetitions
calculate_1rm_constant_factor(weight, r) ==
    IF IsNone(weight) \/ IsNone(r) \/ isnan(weight) \/ isnan(r)
       \/ ~GreaterThanZero(r) \/ ~GreaterThanZero(weight)
    THEN IF IsZero(weight)
         THEN IF IsNone(r) THEN TypeError
              ELSE IF GreaterThanZero(r) THEN PyFloat(FZero) ELSE np_nan
         ELSE np_nan
    ELSE IF IsInf(weight) \/ IsInf(r) THEN PyInf
    ELSE IF r.f = FromInt(1) THEN float(weight)
    ELSE PyFloat(FMul(weight.f, EpleyFactor(FromInt(1))))

\* the weight 0 taken for an invalid input
calculate_1rm_zero_invalid(weight, r) ==
    IF IsNone(weight) \/ IsNone(r) \/ isnan(weight) \/ isnan(r)
       \/ ~GreaterThanZero(r) \/ ~GreaterThanZero(weight)
    THEN IF IsZero(weight) /\ IsNone(r) THEN TypeError ELSE np_nan
    ELSE IF IsInf(weight) \/ IsInf(r) THEN PyInf
    ELSE IF r.f = FromInt(1) THEN float(weight)
    ELSE PyFloat(FMul(weight.f, EpleyFactor(r.f)))

calculate_1rm(weight, r) ==
    IF IsNone(weight) \/ IsNone(r) \/ isnan(weight) \/ isnan(r)
       \/ ~GreaterThanZero(r) \/ ~GreaterThanZero(weight)
    THEN IF IsZero(weight)
         THEN IF IsNone(r) THEN TypeError
              ELSE IF GreaterThanZero(r) THEN PyFloat(FZero) ELSE np_nan
         ELSE np_nan
    ELSE IF IsInf(weight) \/ IsInf(r) THEN PyInf
    ELSE IF r.f = FromInt(1) THEN float(weight)
    ELSE PyFloat(FMul(weight.f, EpleyFactor(r.f)))

\* the division forgotten: the capacity is returned as the weight
estimate_weight_undivided(one_rm, r) ==
    IF IsNone(one_rm) \/ IsNone(r) \/ isnan(one_rm) \/ isnan(r)
       \/ ~GreaterThanZero(r) \/ IsNegative(one_rm)
    THEN IF IsZero(one_rm)
         THEN IF IsNone(r) THEN TypeError
              ELSE IF GreaterThanZero(r) THEN PyFloat(FZero) ELSE np_nan
         ELSE np_nan
    ELSE float(one_rm)

estimate_weight_from_1rm(one_rm, r) ==
    IF IsNone(one_rm) \/ IsNone(r) \/ isnan(one_rm) \/ isnan(r)
       \/ ~GreaterThanZero(r) \/ IsNegative(one_rm)
    THEN IF IsZero(one_rm)
         THEN IF IsNone(r) THEN TypeError
              ELSE IF GreaterThanZero(r) THEN PyFloat(FZero) ELSE np_nan
         ELSE np_nan
    ELSE IF IsInf(r) THEN IF IsInf(one_rm) THEN np_nan ELSE PyFloat(FZero)
    ELSE IF IsInf(one_rm) THEN PyInf
    ELSE IF r.f = FromInt(1) THEN float(one_rm)
    ELSE PyFloat(FDiv(one_rm.f, EpleyFactor(r.f)))

(***************************************************************************)
(* highest_weight_per_rep                                                  *)
(***************************************************************************)
ExRank(e) == CHOOSE i \in DOMAIN PipelineNames : PipelineNames[i] = e

\* the order of the groupby keys (Exercise, Reps)
KeyLess(a, b) ==
    \/ ExRank(a.Exercise) < ExRank(b.Exercise)
    \/ /\ a.Exercise = b.Exercise
       /\ a.Reps.val < b.Reps.val

\* the rows of the set S left in the order of the input (groupby with
\* sort=False would do so)
SortByIndex(S) ==
    [p \in 1..Cardinality(S) |->
        CHOOSE x \in S : Cardinality({y \in S : y.idx < x.idx}) = p - 1]

\* the rows of the set S (no two with the same key) in ascending key order:
\* the row at position p has p - 1 rows before it
SortByKey(S) ==
    [p \in 1..Cardinality(S) |->
        CHOOSE x \in S : Cardinality({y \in S : KeyLess(y, x)}) = p - 1]

\* a non-numeric cell read as the number 0
to_numeric_text_as_zero(c) ==
    IF c.kind = "num" THEN c ELSE IF c.kind = "text" THEN Num(0) ELSE NaN

\* pd.to_numeric(errors='coerce'): a non-numeric cell becomes NaN
to_numeric(c) == IF c.kind = "num" THEN c ELSE NaN

\* astype(int): truncation towards zero
astype_int(c) == Num(c.val)

W(r) == r.Weight.val
R(r) == r.Reps.val

\* the rows with a missing cell not dropped
CoercedWithoutDropna(frame) ==
    LET numeric == [i \in DOMAIN frame |->
                      [frame[i] EXCEPT !.Weight = to_numeric(@),
                                       !.Reps = to_numeric(@)]]
    IN [i \in DOMAIN numeric |-> [numeric[i] EXCEPT !.Reps = astype_int(@)]]

\* lines 57-67: copy, coerce, drop the rows with a missing cell, cast Reps
Coerced(frame) ==
    LET numeric == [i \in DOMAIN frame |->
                      [frame[i] EXCEPT !.Weight = to_numeric(@),
                                       !.Reps = to_numeric(@)]]
        dropped == SelectSeq(numeric,
                      LAMBDA r : r.Weight.kind = "num" /\ r.Reps.kind = "num")
    IN [i \in DOMAIN dropped |-> [dropped[i] EXCEPT !.Reps = astype_int(@)]]

\* of the rows tied at the largest Weight the last one taken
MaxWeightSetsLastOfTies(df_copy) ==
    LET group(i) == {j \in DOMAIN df_copy :
                        /\ df_copy[j].Exercise = df_copy[i].Exercise
                        /\ R(df_copy[j]) = R(df_copy[i])}
        idxmax(i) == \A j \in group(i) :
                        \/ W(df_copy[j]) < W(df_copy[i])
                        \/ W(df_copy[j]) = W(df_copy[i]) /\ i >= j
    IN SortByKey({df_copy[i] : i \in {i \in DOMAIN df_copy : idxmax(i)}})

\* lines 80-81: per (Exercise, Reps) the first row holding the largest
\* Weight, the groups in sorted key order
MaxWeightSets(df_copy) ==
    LET group(i) == {j \in DOMAIN df_copy :
                        /\ df_copy[j].Exercise = df_copy[i].Exercise
                        /\ R(df_copy[j]) = R(df_copy[i])}
        idxmax(i) == \A j \in group(i) :
                        \/ W(df_copy[j]) < W(df_copy[i])
                        \/ W(df_copy[j]) = W(df_copy[i]) /\ i <= j
    IN SortByKey({df_copy[i] : i \in {i \in DOMAIN df_copy : idxmax(i)}})

\* superseded only by the row at the next Reps of the group
is_superseded_by_next(row, group_df) ==
    \E g \in Range(group_df) :
        /\ R(g) > R(row) /\ W(g) >= W(row)
        /\ \A h \in Range(group_df) : ~(R(row) < R(h) /\ R(h) < R(g))

\* superseded only by a row that comes later in the input
is_superseded_by_later(row, group_df) ==
    \E g \in Range(group_df) :
        R(g) > R(row) /\ W(g) >= W(row) /\ g.idx > row.idx

\* superseded only by a strictly larger Weight
is_superseded_strictly(row, group_df) ==
    \E g \in Range(group_df) : R(g) > R(row) /\ W(g) > W(row)

\* lines 88-96
is_superseded(row, group_df) ==
    \E g \in Range(group_df) : R(g) > R(row) /\ W(g) >= W(row)

\* line 104: the rows of a group that are not superseded
RowsToKeep(group) == SelectSeq(group, LAMBDA row : ~is_superseded(row, group))

\* lines 99-108: the rows to keep of each Exercise group, group after group
FinalDf(max_weight_sets) ==
    LET rows_to_keep(e) ==
            RowsToKeep(SelectSeq(max_weight_sets, LAMBDA r : r.Exercise = e))
        present == SelectSeq(PipelineNames,
                      LAMBDA e : \E r \in Range(max_weight_sets) : r.Exercise = e)
        RECURSIVE collect(_)
        collect(i) == IF i > Len(present) THEN <<>>
                      ELSE rows_to_keep(present[i]) \o collect(i + 1)
    IN collect(1)

highest_weight_per_rep(frame) ==
    LET df_copy == Coerced(frame)
    IN IF df_copy = <<>> THEN <<>>
       ELSE FinalDf(MaxWeightSets(df_copy))

(***************************************************************************)
(* add_1rm_column and dougs_next_pareto                                    *)
(***************************************************************************)
\* the Python number a numeric cell holds (val + half/2), NaN otherwise
Scalar(c) ==
    IF c.kind # "num" THEN np_nan
    ELSE IF c.half = 0 THEN PyInt(c.val)
    ELSE PyFloat([FromInt(2 * c.val + 1) EXCEPT !.e = @ - 1])

\* the whole numbers a target can hold: <<Weight, Reps>>
TargetCells ==
    {<<w + k, r>> : w \in Weights, k \in {0, Increment}, r \in 1..(MaxReps + 1)}

\* calculate_1rm(row['Weight'], row['Reps']), looked up where rm_cache holds it
row_1rm(weight, r) ==
    IF weight.kind = "num" /\ r.kind = "num" /\ weight.half = 0 /\ r.half = 0
       /\ <<weight.val, r.val>> \in DOMAIN rm_cache
    THEN rm_cache[<<weight.val, r.val>>]
    ELSE calculate_1rm(Scalar(weight), Scalar(r))

\* the arguments of calculate_1rm exchanged
add_1rm_column_swapped(frame) ==
    [i \in DOMAIN frame |->
        LET weight == to_numeric(frame[i].Weight)
            r == to_numeric(frame[i].Reps)
        IN [idx |-> frame[i].idx, Exercise |-> frame[i].Exercise,
            Weight |-> weight, Reps |-> r, OneRM |-> row_1rm(r, weight)]]

add_1rm_column(frame) ==
    [i \in DOMAIN frame |->
        LET weight == to_numeric(frame[i].Weight)
            r == to_numeric(frame[i].Reps)
        IN [idx |-> frame[i].idx, Exercise |-> frame[i].Exercise,
            Weight |-> weight, Reps |-> r, OneRM |-> row_1rm(weight, r)]]

\* df['Exercise'].unique(): the values in order of first appearance
unique(frame) ==
    LET seen(i) == \E j \in 1..(i - 1) : frame[j].Exercise = frame[i].Exercise
        firsts == SelectSeq([i \in DOMAIN frame |-> i], LAMBDA i : ~seen(i))
    IN [k \in DOMAIN firsts |-> frame[firsts[k]].Exercise]

RECURSIVE sort_values(_)
\* sort_values('Reps'): ascending Reps (the Reps of one Exercise are distinct
\* in the records the filter returns)
sort_values(ed) ==
    IF ed = <<>> THEN <<>>
    ELSE LET i == CHOOSE i \in DOMAIN ed :
                    \A j \in DOMAIN ed :
                        R(ed[i]) < R(ed[j]) \/ (R(ed[i]) = R(ed[j]) /\ i <= j)
         IN <<ed[i]>> \o sort_values(SubSeq(ed, 1, i - 1) \o SubSeq(ed, i + 1, Len(ed)))

\* the first-rep row without the step
LowRowNoStep(ex, ws, rs) == <<ex, ws[1], 1>>

\* the first-rep row at the Reps of the first record
LowRowAtFirstReps(ex, ws, rs) == <<ex, ws[1] + Increment, rs[1]>>

\* line 260: first-rep side
LowRow(ex, ws, rs) == <<ex, ws[1] + Increment, 1>>

\* a gap as soon as the Reps differ
HasGapLoose(rs, i) == rs[i + 1] > rs[i]

\* line 264
HasGap(rs, i) == rs[i + 1] > rs[i] + 1

\* only the first candidate considered
GapRowLowOnly(ex, ws, rs, i) == <<ex, ws[i], rs[i] + 1>>

\* lines 265-269: step rep on low, or step weight on high
GapRow(ex, ws, rs, i) ==
    LET nr == rs[i] + 1
        c1_w == ws[i]
        c2_w == ws[i + 1] + Increment
    IN <<ex, Min(c1_w, c2_w), nr>>

\* the high-rep row with the step added to the weight
HighRowStepped(ex, ws, rs) == <<ex, ws[Len(ws)] + Increment, rs[Len(rs)] + 1>>

\* line 272: high-rep end
HighRow(ex, ws, rs) == <<ex, ws[Len(ws)], rs[Len(rs)] + 1>>

\* the high-rep row appended before the gap rows
ExerciseRowsHighBeforeGaps(ex, frame) ==
    LET ed == sort_values(SelectSeq(frame, LAMBDA r : r.Exercise = ex))
        ws == [i \in DOMAIN ed |-> W(ed[i])]
        rs == [i \in DOMAIN ed |-> R(ed[i])]
        RECURSIVE gaps(_)
        gaps(i) == IF i > Len(rs) - 1 THEN <<>>
                   ELSE (IF HasGap(rs, i) THEN <<GapRow(ex, ws, rs, i)>> ELSE <<>>)
                        \o gaps(i + 1)
    IN <<LowRow(ex, ws, rs)>> \o <<HighRow(ex, ws, rs)>> \o gaps(1)

\* lines 254-272: the rows of one Exercise
ExerciseRows(ex, frame) ==
    LET ed == sort_values(SelectSeq(frame, LAMBDA r : r.Exercise = ex))
        ws == [i \in DOMAIN ed |-> W(ed[i])]
        rs == [i \in DOMAIN ed |-> R(ed[i])]
        RECURSIVE gaps(_)
        gaps(i) == IF i > Len(rs) - 1 THEN <<>>
                   ELSE (IF HasGap(rs, i) THEN <<GapRow(ex, ws, rs, i)>> ELSE <<>>)
                        \o gaps(i + 1)
    IN <<LowRow(ex, ws, rs)>> \o gaps(1) \o <<HighRow(ex, ws, rs)>>

dougs_next_pareto(frame) ==
    LET exs == unique(frame)
        RECURSIVE collect(_)
        collect(k) == IF k > Len(exs) THEN <<>>
                      ELSE ExerciseRows(exs[k], frame) \o collect(k + 1)
        rows == collect(1)
    IN add_1rm_column([i \in DOMAIN rows |->
                          Row(i - 1, rows[i][1], Num(rows[i][2]), Num(rows[i][3]))])

(***************************************************************************)
(* What a call leaves of the DataFrame the caller passed.                  *)
(***************************************************************************)
\* the coerced columns assigned to the caller's frame itself (no copy)
df_after_call_without_copy(frame) ==
    [i \in DOMAIN frame |->
        [frame[i] EXCEPT !.Weight = to_numeric(@), !.Reps = to_numeric(@)]]

\* highest_weight_per_rep(df): every assignment goes to df_copy = df.copy()
\* or to a frame made from it (lines 57-67), none to df
df_after_highest_weight_per_rep(frame) == frame

\* add_1rm_column(df): the columns are assigned to df_copy = df.copy()
df_after_add_1rm_column(frame) == frame

\* the rows handed back in sorted order in place of the caller's
df_records_sorted_in_place(frame) == sort_values(frame)

\* dougs_next_pareto(df_records): the selection by Exercise and sort_values
\* return new frames, nothing is assigned to df_records
df_records_after_dougs_next_pareto(frame) == frame

(***************************************************************************)
(* The state machine of the filter and the synthesizer.                    *)
(***************************************************************************)
\* The input: up to MaxRows records in any order, an irregular record
\* counting double towards MaxRows.
Init ==
    /\ rm_cache = [c \in TargetCells |-> calculate_1rm(PyInt(c[1]), PyInt(c[2]))]
    /\ \E n \in 0..MaxRows :
         \E P \in {Q \in SUBSET (1..n) : n + Cardinality(Q) <= MaxRows} :
           \E clean \in [(1..n) \ P -> CleanCols], irr \in [P -> IrregularCols] :
             df = Frame([i \in 1..n |-> IF i \in P THEN irr[i] ELSE clean[i]])
    /\ df_records = <<>>
    /\ df_targets = <<>>
    /\ df_again = <<>>
    /\ value = PyNone
    /\ reps = PyNone
    /\ first = PyNone
    /\ second = PyNone
    /\ calls = <<>>
    /\ viewer = <<>>
    /\ pc = "loaded"

\* df_records = highest_weight_per_rep(df)
Filter ==
    /\ pc = "loaded"
    /\ df_records' = highest_weight_per_rep(df)
    /\ df' = df_after_highest_weight_per_rep(df)
    /\ pc' = "filtered"
    /\ UNCHANGED <<df_targets, df_again, rm_cache, value, reps, first, second, calls, viewer>>

\* df_targets = dougs_next_pareto(df_records)
NextPareto ==
    /\ pc = "filtered"
    /\ df_targets' = dougs_next_pareto(df_records)
    /\ df_records' = df_records_after_dougs_next_pareto(df_records)
    /\ pc' = "targeted"
    /\ UNCHANGED <<df, df_again, rm_cache, value, reps, first, second, calls, viewer>>

\* highest_weight_per_rep applied to its own output
Refilter ==
    /\ pc = "filtered"
    /\ df_again' = highest_weight_per_rep(df_records)
    /\ pc' = "refiltered"
    /\ UNCHANGED <<df, df_records, df_targets, rm_cache, value, reps, first, second, calls, viewer>>

\* two orders of n rows: the first two rows exchanged, and the first row
\* moved to the end.  Every order of the rows is a chain of these two, and
\* every frame in the chain is an input.
RowOrders(n) ==
    {[i \in 1..n |-> IF i = 1 THEN 2 ELSE IF i = 2 THEN 1 ELSE i],
     [i \in 1..n |-> IF i = n THEN 1 ELSE i + 1]}

\* the records of frame in the order p, as a DataFrame of its own
Permuted(frame, p) ==
    [i \in DOMAIN frame |-> [frame[p[i]] EXCEPT !.idx = i - 1]]

\* highest_weight_per_rep applied to the same records in another order
FilterPermuted ==
    /\ pc = "filtered"
    /\ Len(df) >= 2
    /\ \E p \in RowOrders(Len(df)) :
         df_again' = highest_weight_per_rep(Permuted(df, p))
    /\ pc' = "permuted"
    /\ UNCHANGED <<df, df_records, df_targets, rm_cache, value, reps, first, second, calls, viewer>>

\* frame without its row at position i (the other rows keep their index
\* labels)
Without(frame, i) ==
    [j \in 1..(Len(frame) - 1) |-> IF j < i THEN frame[j] ELSE frame[j + 1]]

\* highest_weight_per_rep applied to the input without one of its rows
\* that has a missing or non-numeric Weight or Reps
FilterWithoutMalformed ==
    /\ pc = "filtered"
    /\ \E i \in DOMAIN df :
         /\ df[i].Weight.kind # "num" \/ df[i].Reps.kind # "num"
         /\ df_again' = highest_weight_per_rep(Without(df, i))
    /\ pc' = "cleaned"
    /\ UNCHANGED <<df, df_records, df_targets, rm_cache, value, reps, first, second, calls, viewer>>

\* df_again = add_1rm_column(df), for an input with a missing or
\* non-numeric Weight or Reps
AddOneRmColumn ==
    /\ pc = "loaded"
    /\ \E i \in DOMAIN df : df[i].Weight.kind # "num" \/ df[i].Reps.kind # "num"
    /\ df_again' = add_1rm_column(df)
    /\ df' = df_after_add_1rm_column(df)
    /\ pc' = "annotated"
    /\ UNCHANGED <<df_records, df_targets, rm_cache, value, reps, first, second, calls, viewer>>

Next ==
    \/ Filter \/ NextPareto \/ Refilter
    \/ FilterPermuted \/ FilterWithoutMalformed \/ AddOneRmColumn

Spec == Init /\ [][Next]_vars

(***************************************************************************)
(* The state machine of a pipeline invocation: pipeline() and              *)
(* gen_html_viewer().                                                      *)
(***************************************************************************)
\* rows of an ingested DataFrame
MaxPipelineRows == 2

\* the largest number of Pareto points and of targets given to the running
\* plots, and the number of evenly spaced sample distances of a curve
MaxParetoPoints == 2
MaxRunTargets == 2
NumSamples == 4

\* the records ingestion delivers: numeric Weight and whole Reps, Reps 0
\* (a set without a repetition) included
PipelineCols ==
    {<<e, Num(w), Num(r)>> :
        e \in PipelineExercises, w \in {Increment, Increment + 1}, r \in {0, 2}}

\* process_csv_files(files): the normalized records of the files
process_csv_files ==
    UNION {{Frame(cs) : cs \in [1..n -> PipelineCols]} : n \in 0..MaxPipelineRows}

\* df_next_pareto of df_processers: the Target Synthesizer
df_next_pareto(frame) == dougs_next_pareto(frame)

\* SequenceMatcher(None, b, a).ratio() of two labels, in thousandths
Ratio(a, b) ==
    IF a = b THEN 1000
    ELSE IF {a, b} = {"Bench Press", "Incline Bench Press"} THEN 733
    ELSE 0

\* the cutoff of get_close_matches, in thousandths
Cutoff == 600

\* get_close_matches(word, possibilities, n=1, cutoff=0.6): the best match
get_close_matches(word, possibilities) ==
    LET close == {p \in Range(possibilities) : Ratio(word, p) >= Cutoff}
    IN IF close = {} THEN <<>>
       ELSE <<CHOOSE p \in close : \A q \in close : Ratio(word, q) <= Ratio(word, p)>>

\* plot_df(df, df_pareto, df_targets, Exercise): the label the figure shows,
\* or the exception raised
plot_df(frame, df_pareto, targets, Exercise) ==
    LET shown == SelectSeq(frame, LAMBDA r : R(r) # 0)
        matches == get_close_matches(Exercise, unique(shown))
    IN IF matches = <<>>
       THEN [raised |-> TRUE, shows |-> "No close match found"]
       ELSE LET closest_match == matches[1]
                pareto == SelectSeq(df_pareto, LAMBDA r : r.Exercise = closest_match)
                marks == SelectSeq(targets, LAMBDA r : r.Exercise = closest_match)
            IN IF pareto = <<>> \/ marks = <<>>
               THEN [raised |-> TRUE, shows |-> "not enough values to unpack"]
               ELSE [raised |-> FALSE, shows |-> closest_match]

\* df_targets.to_html(index=False): the rows of the table, without the
\* index labels
to_html(frame) ==
    [i \in DOMAIN frame |->
        <<frame[i].Exercise, W(frame[i]), R(frame[i]), frame[i].OneRM>>]

\* one pass of the loop with the exception of plot_df not caught: the
\* labels that remain are never plotted
plotted_uncaught(v, frame) ==
    LET exercise == Head(v.remaining)
        fig == plot_df(frame, v.df_records, v.df_targets, exercise)
    IN IF fig.raised
       THEN [v EXCEPT !.remaining = <<>>]
       ELSE [v EXCEPT !.remaining = Tail(@),
                      !.figures_html = Append(@, <<exercise, fig.shows>>)]

\* one pass of the loop over df["Exercise"].unique(): try plot_df, keep the
\* figure, or on any exception add its text to errors
plotted(v, frame) ==
    LET exercise == Head(v.remaining)
        fig == plot_df(frame, v.df_records, v.df_targets, exercise)
    IN IF fig.raised
       THEN [v EXCEPT !.remaining = Tail(@),
                      !.errors = Append(@, fig.shows)]
       ELSE [v EXCEPT !.remaining = Tail(@),
                      !.figures_html = Append(@, <<exercise, fig.shows>>)]

InitPipeline ==
    /\ rm_cache = [c \in TargetCells |-> calculate_1rm(PyInt(c[1]), PyInt(c[2]))]
    /\ df = <<>>
    /\ df_records = <<>>
    /\ df_targets = <<>>
    /\ df_again = <<>>
    /\ value = PyNone
    /\ reps = PyNone
    /\ first = PyNone
    /\ second = PyNone
    /\ calls = <<>>
    /\ viewer = <<>>
    /\ pc = "pipeline"

\* df = process_csv_files(files)
ProcessCsvFiles ==
    /\ pc = "pipeline"
    /\ df' \in process_csv_files
    /\ calls' = Append(calls, "process_csv_files")
    /\ pc' = "ingested"
    /\ UNCHANGED <<df_records, df_targets, df_again, rm_cache, value, reps,
                   first, second, viewer>>

\* records = highest_weight_per_rep(df)
PipelineRecords ==
    /\ pc = "ingested"
    /\ df_records' = highest_weight_per_rep(df)
    /\ calls' = Append(calls, "highest_weight_per_rep")
    /\ pc' = "records"
    /\ UNCHANGED <<df, df_targets, df_again, rm_cache, value, reps,
                   first, second, viewer>>

\* _ = df_next_pareto(records)
PipelineTargets ==
    /\ pc = "records"
    /\ df_targets' = df_next_pareto(df_records)
    /\ calls' = Append(calls, "df_next_pareto")
    /\ pc' = "targets"
    /\ UNCHANGED <<df, df_records, df_again, rm_cache, value, reps,
                   first, second, viewer>>

\* html = gen_html_viewer(df), up to the loop over the labels: the viewer
\* is given df only and computes df_records and df_targets itself
GenHtmlViewer ==
    /\ pc = "targets"
    /\ viewer' = LET records == highest_weight_per_rep(df)
                 IN [df_records |-> records,
                     df_targets |-> df_next_pareto(records),
                     remaining |-> unique(df),
                     figures_html |-> <<>>,
                     errors |-> <<>>,
                     table_html |-> <<>>]
    /\ calls' = calls \o <<"gen_html_viewer", "highest_weight_per_rep",
                            "df_next_pareto">>
    /\ pc' = "rendering"
    /\ UNCHANGED <<df, df_records, df_targets, df_again, rm_cache, value, reps,
                   first, second>>

\* one pass of the loop of gen_html_viewer
PlotExercise ==
    /\ pc = "rendering"
    /\ viewer.remaining # <<>>
    /\ viewer' = plotted(viewer, df)
    /\ calls' = Append(calls, "plot_df")
    /\ UNCHANGED <<df, df_records, df_targets, df_again, rm_cache, value, reps,
                   first, second, pc>>

\* after the loop: table_html = df_targets.to_html(...)
RenderTable ==
    /\ pc = "rendering"
    /\ viewer.remaining = <<>>
    /\ viewer' = [viewer EXCEPT !.table_html = to_html(viewer.df_targets)]
    /\ pc' = "rendered"
    /\ UNCHANGED <<df, df_records, df_targets, df_again, rm_cache, value, reps,
                   first, second, calls>>

NextPipeline ==
    \/ ProcessCsvFiles \/ PipelineRecords \/ PipelineTargets
    \/ GenHtmlViewer \/ PlotExercise \/ RenderTable

SpecPipeline == InitPipeline /\ [][NextPipeline]_vars

(***************************************************************************)
(* The state machine of the converter.                                     *)
(***************************************************************************)
\* the arguments: a whole number from -1 up, None, NaN or float('inf')
Arguments(max) == {PyInt(n) : n \in (-1)..max} \cup {PyNone, np_nan, PyInf}

InitConverter ==
    /\ value \in Arguments(MaxLift)
    /\ reps \in Arguments(MaxSetReps)
    /\ first = PyNone
    /\ second = PyNone
    /\ calls = <<>>
    /\ viewer = <<>>
    /\ pc = "arguments"
    /\ df = <<>>
    /\ df_records = <<>>
    /\ df_targets = <<>>
    /\ df_again = <<>>
    /\ rm_cache = <<>>

\* first = calculate_1rm(value, reps)
Calculate ==
    /\ pc = "arguments"
    /\ first' = calculate_1rm(value, reps)
    /\ pc' = "calculated"
    /\ UNCHANGED <<df, df_records, df_targets, df_again, rm_cache, value, reps, second, calls, viewer>>

\* second = estimate_weight_from_1rm(first, reps), unless the first call raised
EstimateBack ==
    /\ pc = "calculated"
    /\ first # TypeError
    /\ second' = estimate_weight_from_1rm(first, reps)
    /\ pc' = "calculated_estimated"
    /\ UNCHANGED <<df, df_records, df_targets, df_again, rm_cache, value, reps, first, calls, viewer>>

\* second = calculate_1rm(value, reps + 1), for a whole number reps
CalculateNextEffort ==
    /\ pc = "calculated"
    /\ \E n \in (-1)..MaxSetReps :
         /\ reps = PyInt(n)
         /\ second' = calculate_1rm(value, PyInt(n + 1))
    /\ pc' = "calculated_next"
    /\ UNCHANGED <<df, df_records, df_targets, df_again, rm_cache, value, reps, first, calls, viewer>>

\* first = estimate_weight_from_1rm(value, reps)
Estimate ==
    /\ pc = "arguments"
    /\ first' = estimate_weight_from_1rm(value, reps)
    /\ pc' = "estimated"
    /\ UNCHANGED <<df, df_records, df_targets, df_again, rm_cache, value, reps, second, calls, viewer>>

\* second = calculate_1rm(first, reps), unless the first call raised
CalculateBack ==
    /\ pc = "estimated"
    /\ first # TypeError
    /\ second' = calculate_1rm(first, reps)
    /\ pc' = "estimated_calculated"
    /\ UNCHANGED <<df, df_records, df_targets, df_again, rm_cache, value, reps, first, calls, viewer>>

NextConverter ==
    Calculate \/ EstimateBack \/ CalculateNextEffort \/ Estimate \/ CalculateBack

SpecConverter == InitConverter /\ [][NextConverter]_vars

(***************************************************************************)
(* Vocabulary of the properties.                                           *)
(***************************************************************************)
\* a record the filter can use: Weight and Reps are numbers
Usable(r) == r.Weight.kind = "num" /\ r.Reps.kind = "num"
UsableRecords == {r \in Range(df) : Usable(r)}

\* twice the effort of a record as the input states it (2.5 reps is 5)
Effort2(r) == 2 * r.Reps.val + r.Reps.half

SameLabel(a, b) == a.Exercise = b.Exercise

\* a and b agree in label, effort and performance
SameRecord(a, b) == SameLabel(a, b) /\ Effort2(a) = Effort2(b) /\ W(a) = W(b)

\* a has at least the effort and at least the performance of b
WeaklyDominates(a, b) ==
    SameLabel(a, b) /\ Effort2(a) >= Effort2(b) /\ W(a) >= W(b)

\* ... and more of one of them
Dominates(a, b) == WeaklyDominates(a, b) /\ ~SameRecord(a, b)

\* the filter kept the row r, or a row that states the same record
Kept(r) == \E k \in Range(df_records) : k.idx = r.idx \/ SameRecord(k, r)

\* r holds the best Weight among the records with its Exercise and Reps
BestAtEffort(r) ==
    \A q \in UsableRecords : SameLabel(q, r) /\ Effort2(q) = Effort2(r) => W(q) <= W(r)

\* a record with strictly more Reps and at least the Weight of r
Superseded(r) ==
    \E q \in UsableRecords : SameLabel(q, r) /\ Effort2(q) > Effort2(r) /\ W(q) >= W(r)

\* the Frontier and the targets of one label
RecordsOf(ex) == {k \in Range(df_records) : k.Exercise = ex}
TargetsOf(ex) == SelectSeq(df_targets, LAMBDA t : t.Exercise = ex)

\* the adjacent pairs of the Frontier of ex, sorted by effort
AdjacentPairs(ex) ==
    {p \in RecordsOf(ex) \X RecordsOf(ex) :
        /\ R(p[1]) < R(p[2])
        /\ \A k \in RecordsOf(ex) : ~(R(p[1]) < R(k) /\ R(k) < R(p[2]))}

\* those more than one effort unit apart
GapPairs(ex) == {p \in AdjacentPairs(ex) : R(p[2]) > R(p[1]) + 1}

\* the targets of ex between the first and the last one
InnerTargets(ex) ==
    {TargetsOf(ex)[i] : i \in 2..(Len(TargetsOf(ex)) - 1)}

\* the Frontier record of ex with the lowest, and with the highest, effort
Lowest(ex) == CHOOSE k \in RecordsOf(ex) : \A q \in RecordsOf(ex) : R(k) <= R(q)
Highest(ex) == CHOOSE k \in RecordsOf(ex) : \A q \in RecordsOf(ex) : R(q) <= R(k)

(***************************************************************************)
(* Properties of the Dominance Filter.                                     *)
(***************************************************************************)
\* C1: the filter keeps a usable record R if and only if R holds the best
\* Weight among the records with R's (Exercise, Reps) and no other record of
\* the same Exercise has more Reps and at least R's Weight.  (Fails: Reps
\* 1.5 is cast to 1, so a record at 6 x 1 removes the record 5 x 1.5.)
C1_KeepsExactlyUnsuperseded ==
    pc = "filtered" =>
        \A r \in UsableRecords : Kept(r) <=> (BestAtEffort(r) /\ ~Superseded(r))

\* C2: in the Frontier, of two records of one label the one with more
\* effort has strictly less performance.
C2_PerformanceStrictlyDecreases ==
    pc # "loaded" =>
        \A a, b \in Range(df_records) :
            SameLabel(a, b) /\ R(a) < R(b) => W(b) < W(a)

\* two Frontier records of one label, and an input record that was removed
C2_Witness ==
    /\ pc = "filtered"
    /\ \E a, b \in Range(df_records) : SameLabel(a, b) /\ R(a) < R(b)
    /\ \E r \in UsableRecords : ~Kept(r)

\* C3: every usable input record is in the Frontier of its label, or has the
\* effort and performance of a Frontier record, or is dominated by a
\* Frontier record of its label.  (Fails for the same input as C1.)
C3_MaximalAntichain ==
    pc = "filtered" =>
        \A r \in UsableRecords :
            \E k \in Range(df_records) :
                k.idx = r.idx \/ SameRecord(k, r) \/ Dominates(k, r)

\* C4: the filter applied to its own output returns exactly that output.
C4_Idempotent ==
    pc = "refiltered" => df_again = df_records

\* the filter removed a record the first time and kept two
C4_Witness ==
    /\ pc = "refiltered"
    /\ Len(df_records) >= 2
    /\ Len(df_records) < Cardinality(UsableRecords)

(***************************************************************************)
(* Properties of the Target Synthesizer.                                   *)
(***************************************************************************)
\* C5: an adjacent pair of Frontier records yields an internal-gap target if
\* and only if its efforts differ by more than one, and that target is
\* (effort_i + 1, min(performance_i, performance_i+1 + 5)).
C5_GapTargets ==
    pc = "targeted" =>
        \A ex \in Exercises : \A p \in AdjacentPairs(ex) :
            /\ (R(p[2]) > R(p[1]) + 1)
                  <=> \E t \in InnerTargets(ex) : R(t) = R(p[1]) + 1
            /\ \A t \in InnerTargets(ex) :
                  R(t) = R(p[1]) + 1 => W(t) = Min(W(p[1]), W(p[2]) + Increment)

\* a gap and the one target that fills it, next to a pair exactly one effort
\* unit apart
C5_Witness ==
    /\ pc = "targeted"
    /\ \E ex \in Exercises :
         /\ \E p \in GapPairs(ex) :
              \E t \in InnerTargets(ex) :
                  /\ R(t) = R(p[1]) + 1
                  /\ W(t) = Min(W(p[1]), W(p[2]) + Increment)
                  /\ InnerTargets(ex) = {t}
         /\ AdjacentPairs(ex) # GapPairs(ex)

\* C6: every label with a non-empty Frontier gets the target (effort 1,
\* performance of the lowest-effort Frontier record + 5).
C6_LowEffortTarget ==
    pc = "targeted" =>
        \A ex \in Exercises :
            RecordsOf(ex) # {} =>
                \E i \in DOMAIN df_targets :
                    /\ df_targets[i].Exercise = ex
                    /\ R(df_targets[i]) = 1
                    /\ W(df_targets[i]) = W(Lowest(ex)) + Increment

\* a Frontier whose lowest effort is above 1
C6_Witness ==
    /\ pc = "targeted"
    /\ \E ex \in Exercises : RecordsOf(ex) # {} /\ R(Lowest(ex)) > 1

\* C7: every label with a non-empty Frontier gets the target (highest
\* Frontier effort + 1, performance of the highest-effort Frontier record).
C7_HighEffortTarget ==
    pc = "targeted" =>
        \A ex \in Exercises :
            RecordsOf(ex) # {} =>
                \E i \in DOMAIN df_targets :
                    /\ df_targets[i].Exercise = ex
                    /\ R(df_targets[i]) = R(Highest(ex)) + 1
                    /\ W(df_targets[i]) = W(Highest(ex))

\* a Frontier of two records whose highest-effort record has a weight
C7_Witness ==
    /\ pc = "targeted"
    /\ \E ex \in Exercises :
         Cardinality(RecordsOf(ex)) >= 2 /\ W(Highest(ex)) > 0

\* C8: a label gets exactly 2 + g targets, g the number of adjacent Frontier
\* pairs more than one effort unit apart, and none without Frontier records.
C8_TargetCount ==
    pc = "targeted" =>
        \A ex \in Exercises :
            Len(TargetsOf(ex)) =
                IF RecordsOf(ex) = {} THEN 0
                ELSE 2 + Cardinality(GapPairs(ex))

\* one label with a gap, a pair one unit apart and three targets, the other
\* without records
C8_Witness ==
    /\ pc = "targeted"
    /\ \E ex \in Exercises :
         /\ GapPairs(ex) # {} /\ AdjacentPairs(ex) # GapPairs(ex)
         /\ Len(TargetsOf(ex)) = 3
    /\ \E ex \in Exercises : RecordsOf(ex) = {} /\ TargetsOf(ex) = <<>>

\* the input with the target t added as one more record
WithTarget(t) == Append(df, Row(Len(df), t.Exercise, t.Weight, t.Reps))

\* C9: a target equals no record of the input, is dominated by no input or
\* Frontier record of its label, and added to the input it is on the new
\* Frontier.
C9_TargetsAreNew ==
    pc = "targeted" =>
        \A i \in DOMAIN df_targets :
            LET t == df_targets[i]
            IN /\ \A r \in UsableRecords \cup Range(df_records) :
                     ~WeaklyDominates(r, t)
               /\ \E k \in Range(highest_weight_per_rep(WithTarget(t))) :
                     k.idx = Len(df)

\* three targets, one in a gap, of an input with a record that was removed
C9_Witness ==
    /\ pc = "targeted"
    /\ \E ex \in Exercises : InnerTargets(ex) # {}
    /\ \E r \in UsableRecords : ~Kept(r)

(***************************************************************************)
(* Properties of the Metric Converter.                                     *)
(***************************************************************************)
\* the floats at most two steps from f > 0
Within2Ulp(f) ==
    {f, FSucc(f), FSucc(FSucc(f)), FPred(f), FPred(FPred(f))}

\* a is b up to the rounding of one multiplication and one division
Near(a, b) ==
    /\ IsNumber(a) /\ IsNumber(b) /\ a.neg = b.neg
    /\ IF b.f = FZero THEN a.f = FZero ELSE a.f \in Within2Ulp(b.f)

\* C10: (as stated) for performance > 0 and effort > 0,
\* estimate_weight_from_1rm(calculate_1rm(performance, effort), effort)
\* == performance, and for capacity c >= 0 and effort r > 0,
\* calculate_1rm(estimate_weight_from_1rm(c, r), r) == c.
C10_ExactRoundTrip ==
    /\ pc = "calculated_estimated" /\ IsPositive(value) /\ IsPositive(reps)
          => PyEq(second, value)
    /\ pc = "estimated_calculated" /\ ~IsNegative(value) /\ IsNumber(value)
          /\ IsPositive(reps)
          => PyEq(second, value)

\* C10: (amended) the two round trips return the value they started from up
\* to floating-point rounding: at most two units in the last place away, and
\* exactly for effort 1 and for the value 0.
C10_RoundTripWithinRounding ==
    /\ pc = "calculated_estimated" /\ IsPositive(value) /\ IsPositive(reps)
          => /\ Near(second, value)
             /\ reps.f = FromInt(1) => PyEq(second, value)
    /\ pc = "estimated_calculated" /\ ~IsNegative(value) /\ IsNumber(value)
          /\ IsPositive(reps)
          => /\ Near(second, value)
             /\ reps.f = FromInt(1) \/ IsZero(value) => PyEq(second, value)

\* a round trip that does not return exactly the weight it started from
C10_Witness ==
    /\ pc = "calculated_estimated"
    /\ IsPositive(value) /\ IsPositive(reps)
    /\ ~PyEq(second, value)

(***************************************************************************)
(* Properties of the converter at its edges.                               *)
(***************************************************************************)
\* the whole numbers the arguments are drawn from
LiftOf(x) == CHOOSE n \in (-1)..(MaxLift + 1) : x = PyInt(n)
SetRepsOf(x) == CHOOSE n \in (-1)..(MaxSetReps + 1) : x = PyInt(n)

\* a performance of the data model: a number that is not negative
IsPerformance(x) == IsNumber(x) /\ ~IsNegative(x)

\* C11: at the reference effort of 1 repetition the capacity equals the
\* performance: calculate_1rm(performance, 1) == performance for every
\* performance (a number >= 0).
C11_ReferenceUnitIdentity ==
    pc = "calculated" /\ IsPerformance(value) /\ reps = PyInt(1)
        => PyEq(first, value)

\* calculate_1rm was called with a positive weight and 1 repetition
C11_Witness ==
    /\ pc = "calculated" /\ IsPositive(value) /\ reps = PyInt(1)
    /\ PyEq(first, value) /\ first.cls = "float"

\* performance * (1 + effort / 30) computed without intermediate rounding:
\* the float nearest to w * (30 + r) / 30
EpleyExact(w, r) == PyFloat(FDiv(FromInt(w * (EpleyDivisor + r)), FromInt(EpleyDivisor)))

IsRaised(x) == x.cls = "TypeError"

\* an argument outside the domain: effort <= 0, or a negative performance
\* (for calculate_1rm) or capacity (for estimate_weight_from_1rm)
OutOfDomain ==
    \/ IsZero(reps) \/ IsNegative(reps)
    \/ IsNegative(value)

\* C13: the converter called with an out-of-domain argument (effort <= 0, a
\* negative performance or capacity) fails: the error is raised to the
\* caller, and its outcome is never passed on as a value to a later call.
C13_OutOfDomainRaises ==
    /\ pc \in {"calculated", "estimated"} /\ OutOfDomain => IsRaised(first)
    /\ pc \in {"calculated_estimated", "estimated_calculated"} => ~OutOfDomain

\* a missing (None, NaN) or non-finite (infinite) argument
IsMissing(x) == IsNone(x) \/ isnan(x) \/ IsInf(x)

\* C14: the converter called with a missing (None, NaN) or infinite
\* performance or effort fails with an error, whatever the other argument
\* is, and the outcome is not the valid result 0.
C14_MissingRaises ==
    pc \in {"calculated", "estimated"} /\ (IsMissing(value) \/ IsMissing(reps))
        => IsRaised(first) /\ ~IsZero(first)

\* C15: for every effort > 0, calculate_1rm(0, effort) returns the capacity
\* 0 as a float, neither NaN nor an error, and so does
\* estimate_weight_from_1rm(0, effort).
C15_ZeroIsValid ==
    pc \in {"calculated", "estimated"} /\ IsZero(value) /\ GreaterThanZero(reps)
        => first = PyFloat(FZero)

\* calculate_1rm was called with weight 0 and several repetitions
C15_Witness ==
    /\ pc = "calculated" /\ value = PyInt(0)
    /\ IsPositive(reps) /\ reps # PyInt(1)
    /\ first = PyFloat(FZero)

(***************************************************************************)
(* Properties of the Dominance Filter: ties, order, malformed records.     *)
(***************************************************************************)
\* the input record a Frontier row was taken from (the row keeps its index
\* label)
SourceOf(k) == df[k.idx + 1]

\* C16: for each label and each effort the filter retains at most one of
\* the input records, and the one it retains holds the best performance at
\* that effort and is the first in the input of those that tie for it.
C16_FirstBestPerEffort ==
    pc = "filtered" =>
        /\ \A k \in Range(df_records) :
              /\ Usable(SourceOf(k))
              /\ \A q \in UsableRecords :
                    SameLabel(q, SourceOf(k)) /\ Effort2(q) = Effort2(SourceOf(k))
                    => /\ W(q) <= W(SourceOf(k))
                       /\ W(q) = W(SourceOf(k)) => k.idx <= q.idx
        /\ \A k, l \in Range(df_records) :
              SameLabel(k, l) /\ Effort2(SourceOf(k)) = Effort2(SourceOf(l))
              => k = l

\* two input records tie for the best performance at their effort and the
\* first of them is in the Frontier
C16_Witness ==
    /\ pc = "filtered"
    /\ \E a, b \in UsableRecords :
          /\ a.idx < b.idx /\ SameRecord(a, b) /\ BestAtEffort(a)
          /\ \E k \in Range(df_records) : k.idx = a.idx
          /\ \E c \in UsableRecords : SameLabel(c, a) /\ c.idx < a.idx

\* C17: the rows the filter returns for one label are in ascending effort
\* order as emitted, whatever the order of the input: of two rows of a
\* label the earlier one has strictly less effort.
C17_AscendingEffort ==
    pc = "filtered" =>
        \A i, j \in DOMAIN df_records :
            i < j /\ SameLabel(df_records[i], df_records[j])
            => /\ R(df_records[i]) < R(df_records[j])
               /\ Effort2(SourceOf(df_records[i])) < Effort2(SourceOf(df_records[j]))

\* the Frontier holds two rows of a label in the reverse of their input
\* order
C17_Witness ==
    /\ pc = "filtered"
    /\ \E i, j \in DOMAIN df_records :
          /\ i < j /\ SameLabel(df_records[i], df_records[j])
          /\ df_records[i].idx > df_records[j].idx

\* the (label, effort, performance) of the rows of a frame, in its order
Values(frame) ==
    [i \in DOMAIN frame |->
        <<frame[i].Exercise, frame[i].Reps, frame[i].Weight>>]

\* C18: the result of the filter does not depend on the order of the
\* input: run on the same records in any other order it returns the same
\* (label, effort, performance) rows in the same order.
C18_OrderIndependent ==
    pc = "permuted" => Values(df_again) = Values(df_records)

\* the two runs took a Frontier row of two or more from different positions
\* of their inputs
C18_Witness ==
    /\ pc = "permuted"
    /\ Len(df_records) >= 2 /\ Len(df_again) = Len(df_records)
    /\ \A i \in DOMAIN df_records : df_again[i].idx # df_records[i].idx

\* C19: a record whose effort or performance is missing or non-numeric is
\* dropped: the Frontier of the input is the Frontier of the input without
\* that record, and holds no row taken from it.
C19_MalformedDropped ==
    /\ pc = "cleaned" => df_again = df_records
    /\ pc = "filtered" => \A k \in Range(df_records) : Usable(SourceOf(k))

\* the input held a malformed record before a usable one, and the
\* Frontier is that of the usable one
C19_Witness ==
    /\ pc = "cleaned"
    /\ ~Usable(df[1])
    /\ df_records # <<>> /\ df_again = df_records

\* the labels without a usable record in the input
LabelsWithoutRecords ==
    {ex \in Exercises : \A r \in UsableRecords : r.Exercise # ex}

\* C20: an input without a usable record (empty, or all records malformed)
\* yields an empty Frontier and no targets, and a label without a usable
\* record in the input has no Frontier row and no target.
C20_EmptyFrontier ==
    /\ pc # "loaded" /\ UsableRecords = {} => df_records = <<>>
    /\ pc = "targeted" /\ UsableRecords = {} => df_targets = <<>>
    /\ pc # "loaded" => \A ex \in LabelsWithoutRecords : RecordsOf(ex) = {}
    /\ pc = "targeted" => \A ex \in LabelsWithoutRecords : TargetsOf(ex) = <<>>

\* the input is not empty, all its records are malformed, and both the
\* Frontier and the targets are empty
C20_Witness ==
    /\ pc = "targeted"
    /\ df # <<>> /\ UsableRecords = {}
    /\ LabelsWithoutRecords = Exercises
    /\ df_records = <<>> /\ df_targets = <<>>

(***************************************************************************)
(* Properties of the Target Synthesizer: order, annotation, shape.         *)
(***************************************************************************)
\* the position of the first Frontier row of the label ex
FirstRowOf(ex) ==
    CHOOSE i \in DOMAIN df_records :
        /\ df_records[i].Exercise = ex
        /\ \A j \in 1..(i - 1) : df_records[j].Exercise # ex

C22_TargetCapacity ==
    pc = "targeted" =>
        \A i \in DOMAIN df_targets :
            LET t == df_targets[i]
            IN /\ <<W(t), R(t)>> \in DOMAIN rm_cache
               /\ t.OneRM = rm_cache[<<W(t), R(t)>>]
               /\ R(t) = 1 /\ W(t) > 0 => PyEq(t.OneRM, PyInt(W(t)))
               /\ W(t) = 0 => t.OneRM = PyFloat(FZero)
               /\ R(t) > 1 /\ W(t) > 0
                     => IsPositive(t.OneRM) /\ FLess(FromInt(W(t)), t.OneRM.f)

\* targets at 1 repetition, at several repetitions, and with weight 0
C22_Witness ==
    /\ pc = "targeted"
    /\ \E i, j, k \in DOMAIN df_targets :
          /\ R(df_targets[i]) = 1 /\ W(df_targets[i]) > 0
          /\ R(df_targets[j]) > 1 /\ W(df_targets[j]) > 0
          /\ W(df_targets[k]) = 0 /\ df_targets[k].OneRM = PyFloat(FZero)

\* C29: the targets of one label have pairwise distinct efforts and stand
\* in strictly ascending effort order.
C29_TargetEffortsAscend ==
    pc = "targeted" =>
        \A ex \in Exercises :
            \A i, j \in DOMAIN TargetsOf(ex) :
                i < j => R(TargetsOf(ex)[i]) < R(TargetsOf(ex)[j])

\* C30: the targets of one label form an antichain: no target has at least
\* the effort and at least the performance of another one, so in ascending
\* effort the performance strictly decreases.
C30_TargetsAntichain ==
    pc = "targeted" =>
        \A ex \in Exercises :
            \A i, j \in DOMAIN TargetsOf(ex) :
                i # j =>
                    LET a == TargetsOf(ex)[i]
                        b == TargetsOf(ex)[j]
                    IN /\ ~(R(a) >= R(b) /\ W(a) >= W(b))
                       /\ R(a) < R(b) => W(b) < W(a)

PipelineOrder ==
    <<"process_csv_files", "highest_weight_per_rep", "df_next_pareto",
      "gen_html_viewer">>

\* the calls made so far, without the passes of the plotting loop
StepsSoFar == SelectSeq(calls, LAMBDA c : c # "plot_df")

\* C24: the steps of an invocation happen in the order ingestion, filter,
\* synthesizer, rendering, and the renderer shows the Frontier and the
\* targets the pipeline computed: during rendering neither is computed
\* again.
C24_OrderWithoutRecompute ==
    /\ Len(StepsSoFar) <= Len(PipelineOrder)
    /\ \A i \in DOMAIN StepsSoFar : StepsSoFar[i] = PipelineOrder[i]
    /\ pc = "rendered" => viewer.table_html = to_html(df_targets)

\* a label whose plot fails: no label close to it has a record with
\* repetitions
PlotFails(ex) ==
    \A r \in Range(df) : R(r) = 0 \/ Ratio(ex, r.Exercise) < Cutoff

\* C25: a failure raised while one label is rendered does not end the
\* batch: once the loop is through, exactly the labels whose plot failed
\* have no figure, every other label of the input has its figure, and the
\* table holds all targets.
C25_FailureSkipsOneLabel ==
    /\ pc \in {"rendering", "rendered"} /\ viewer.remaining = <<>>
          => /\ \A ex \in PipelineExercises :
                   (\E i \in DOMAIN viewer.figures_html : viewer.figures_html[i][1] = ex)
                   <=> /\ \E r \in Range(df) : r.Exercise = ex
                       /\ ~PlotFails(ex)
             /\ Len(viewer.errors) =
                   Cardinality({ex \in PipelineExercises :
                                   /\ \E r \in Range(df) : r.Exercise = ex
                                   /\ PlotFails(ex)})
    /\ pc = "rendered"
          => /\ viewer.table_html = to_html(viewer.df_targets)
             /\ \A r \in Range(df) :
                   \E i \in DOMAIN viewer.table_html :
                       viewer.table_html[i][1] = r.Exercise

\* the plot of the first label failed, the second label has its figure and
\* the table holds the targets of both
C25_Witness ==
    /\ pc = "rendered"
    /\ Len(viewer.errors) = 1 /\ Len(viewer.figures_html) = 1
    /\ PlotFails(df[1].Exercise)
    /\ viewer.figures_html[1][1] = df[2].Exercise
    /\ \E i \in DOMAIN viewer.table_html : viewer.table_html[i][1] = df[1].Exercise

(***************************************************************************)
(* C27: the sort-plus-single-pass sweep of spec.md                         *)
(***************************************************************************)
\* the sweep keeping also a row that only equals the running best
sweep_keeping_ties(group) ==
    LET sorted == SortByKey(Range(group))
        RECURSIVE scan(_, _)
        scan(i, best) ==
            IF i = 0 THEN <<>>
            ELSE IF best = <<>> \/ W(sorted[i]) >= best[1]
                 THEN scan(i - 1, <<W(sorted[i])>>) \o <<sorted[i]>>
                 ELSE scan(i - 1, best)
    IN scan(Len(sorted), <<>>)

\* the rows of a group sorted by Reps ascending and scanned from the highest
\* Reps down: best is <<>> before the first row and <<w>> once w is the
\* largest Weight seen; a row is kept when its Weight exceeds best
sweep(group) ==
    LET sorted == SortByKey(Range(group))
        RECURSIVE scan(_, _)
        scan(i, best) ==
            IF i = 0 THEN <<>>
            ELSE IF best = <<>> \/ W(sorted[i]) > best[1]
                 THEN scan(i - 1, <<W(sorted[i])>>) \o <<sorted[i]>>
                 ELSE scan(i - 1, best)
    IN scan(Len(sorted), <<>>)

\* highest_weight_per_rep with the rows to keep of each group found by sweep
highest_weight_per_rep_by_sweep(frame) ==
    LET df_copy == Coerced(frame)
        max_weight_sets == MaxWeightSets(df_copy)
        present == SelectSeq(PipelineNames,
                      LAMBDA e : \E r \in Range(max_weight_sets) : r.Exercise = e)
        RECURSIVE collect(_)
        collect(i) ==
            IF i > Len(present) THEN <<>>
            ELSE sweep(SelectSeq(max_weight_sets,
                                 LAMBDA r : r.Exercise = present[i]))
                 \o collect(i + 1)
    IN IF df_copy = <<>> THEN <<>> ELSE collect(1)

\* C27: the Frontier found by the sweep is the Frontier found by the pairwise
\* is_superseded scan of highest_weight_per_rep: the same rows in the same
\* order, for every input
C27_SweepEqualsScan ==
    pc = "filtered" => highest_weight_per_rep_by_sweep(df) = df_records

\* an input with two rows of one Exercise at the same Reps and a row at
\* higher Reps whose Weight equals the best of them, which both drop
C27_Witness ==
    /\ pc = "filtered"
    /\ \E i, j, k \in DOMAIN Coerced(df) :
          LET c == Coerced(df)
          IN /\ i # j
             /\ c[i].Exercise = c[j].Exercise /\ c[j].Exercise = c[k].Exercise
             /\ R(c[i]) = R(c[j]) /\ R(c[k]) > R(c[i])
             /\ W(c[i]) <= W(c[j]) /\ W(c[k]) = W(c[j])
    /\ highest_weight_per_rep_by_sweep(df) = df_records
    /\ Len(df_records) < Len(Coerced(df))

(***************************************************************************)
(* The JavaScript of the viewer page (viewers.py, lines 246-314): the      *)
(* uploaded rows are the cells of the CSV as PapaParse hands them over.    *)
(***************************************************************************)
\* parseFloat: the number a cell starts with, NaN for none
parseFloat(c) == IF c.kind = "num" THEN c ELSE NaN

\* parseInt: the whole part of the number a cell starts with, NaN for none
parseInt(c) == IF c.kind = "num" THEN Num(c.val) ELSE NaN

\* calculate1rm(weight, reps) on the numbers of a target row: !weight and
\* !reps hold of 0 (and of NaN)
calculate1rm(weight, r) ==
    IF weight = 0 \/ r = 0 \/ r <= 0 \/ weight < 0 THEN np_nan
    ELSE IF r = 1 THEN PyFloat(FromInt(weight))
    ELSE PyFloat(FMul(FromInt(weight), FAdd(FromInt(1), FDiv(FromInt(r), FromInt(30)))))

\* highestWeightPerRep(data)
highestWeightPerRep(data) ==
    LET parsed == [i \in DOMAIN data |->
                     [data[i] EXCEPT !.Reps = parseInt(@), !.Weight = parseFloat(@)]]
        valid == SelectSeq(parsed,
                    LAMBDA row : row.Reps.kind = "num" /\ row.Weight.kind = "num")
        \* byExercise[ex][reps]: replaced only by a larger Weight
        best(i) == \A j \in DOMAIN valid :
                      (valid[j].Exercise = valid[i].Exercise /\ R(valid[j]) = R(valid[i]))
                      => \/ W(valid[j]) < W(valid[i])
                         \/ W(valid[j]) = W(valid[i]) /\ i <= j
        \* Object.keys: the labels in insertion order, the Reps ascending
        exs == unique(valid)
        rows(ex) == LET g == SelectSeq(valid, LAMBDA row : row.Exercise = ex)
                        firsts == SelectSeq(g,
                                    LAMBDA row : \E i \in DOMAIN valid :
                                                    valid[i] = row /\ best(i))
                    IN sort_values(firsts)
        kept(ex) == LET g == rows(ex)
                    IN SelectSeq(g, LAMBDA row :
                          ~\E k \in DOMAIN g :
                              R(g[k]) > R(row) /\ W(g[k]) >= W(row))
        RECURSIVE finalRecords(_)
        finalRecords(k) == IF k > Len(exs) THEN <<>>
                           ELSE kept(exs[k]) \o finalRecords(k + 1)
    IN finalRecords(1)

\* dfNextPareto(records): the rows <<Exercise, Weight, Reps, 1RM>>
dfNextPareto(records) ==
    LET exs == unique(records)
        of(ex) ==
            LET ed == sort_values(SelectSeq(records, LAMBDA r : r.Exercise = ex))
                ws == [i \in DOMAIN ed |-> W(ed[i])]
                rs == [i \in DOMAIN ed |-> R(ed[i])]
                RECURSIVE gaps(_)
                gaps(i) ==
                    IF i > Len(rs) - 1 THEN <<>>
                    ELSE (IF rs[i + 1] > rs[i] + 1
                          THEN <<<<ex, Min(ws[i], ws[i + 1] + 5), rs[i] + 1>>>>
                          ELSE <<>>) \o gaps(i + 1)
            IN <<<<ex, ws[1] + 5, 1>>>> \o gaps(1)
               \o <<<<ex, ws[Len(ws)], rs[Len(rs)] + 1>>>>
        RECURSIVE collect(_)
        collect(k) == IF k > Len(exs) THEN <<>> ELSE of(exs[k]) \o collect(k + 1)
        rows == collect(1)
    IN [i \in DOMAIN rows |->
          <<rows[i][1], rows[i][2], rows[i][3], calculate1rm(rows[i][2], rows[i][3])>>]

(***************************************************************************)
(* C28: the page's JavaScript against the Python functions.                *)
(***************************************************************************)
\* the rows of a Frontier as <<Exercise, Weight, Reps>>
FrontierRows(records) ==
    {<<records[i].Exercise, W(records[i]), R(records[i])>> : i \in DOMAIN records}

\* the targets of the label ex the page computes from the uploaded rows, as
\* <<Weight, Reps, 1RM>> in the order of the table
JsTargetsOf(ex) ==
    LET ts == SelectSeq(dfNextPareto(highestWeightPerRep(df)),
                        LAMBDA t : t[1] = ex)
    IN [i \in DOMAIN ts |-> <<ts[i][2], ts[i][3], ts[i][4]>>]

\* the targets of the label ex the Python functions compute
PyTargetsOf(ex) ==
    LET ts == SelectSeq(df_targets, LAMBDA t : t.Exercise = ex)
    IN [i \in DOMAIN ts |-> <<W(ts[i]), R(ts[i]), ts[i].OneRM>>]

\* C28: for every uploaded record set the page's JavaScript finds the
\* Frontier highest_weight_per_rep finds, and for every label the targets
\* dougs_next_pareto emits, in the same order, each with the 1RM
\* calculate_1rm gives it, a target of Weight 0 included.
C28_JsEqualsPython ==
    pc = "targeted" =>
        /\ FrontierRows(highestWeightPerRep(df)) = FrontierRows(df_records)
        /\ \A ex \in Exercises : JsTargetsOf(ex) = PyTargetsOf(ex)

(***************************************************************************)
(* plot_running_df and plot_running_pace_df (running_viewers.py).          *)
(* Distances are whole hundredths of a mile, Pace whole seconds per mile,  *)
(* Speed whole thousandths of a mile per hour, Duration whole hundredths   *)
(* of a minute.  riegel_pace_exponent comes from running_processers.py;    *)
(* the exponent of distance it returns is taken as one unknown whole       *)
(* number of RiegelExponents for a whole call.                             *)
(***************************************************************************)
RunRow(i, e, d, p) ==
    [idx |-> i, Exercise |-> e, Distance |-> d, Pace |-> p,
     Speed |-> 3600000 \div p]

\* the columns <<Exercise, Distance, Pace>> of a Pareto point
ParetoCols ==
    {<<"Run", d, p>> : d \in {100, 500}, p \in {480, 540}} \cup {<<"Walk", 100, 480>>}

\* the columns of a target
TargetCols == {<<"Run", d, p>> : d \in {300, 600}, p \in {480, 540}}

RunFrame(cs) == [i \in 1..Len(cs) |-> RunRow(i - 1, cs[i][1], cs[i][2], cs[i][3])]

RiegelExponents == {0, 1}

\* the race distances of the marker lines: 5K, half marathon, marathon
race_distances == {311, 1311, 2622}

\* Pace * Distance / 60.0
Duration(row) == (row.Pace * row.Distance) \div 60

RECURSIVE SumSeq(_)
SumSeq(s) == IF s = <<>> THEN 0 ELSE Head(s) + SumSeq(Tail(s))

\* sorted(set(...)): the members of a set of numbers in ascending order
Sorted(S) ==
    [p \in 1..Cardinality(S) |->
        CHOOSE x \in S : Cardinality({y \in S : y < x}) = p - 1]

\* sorted(points, key=lambda x: x[0]): ascending Distance, rows of one
\* Distance in the order of the frame
RECURSIVE SortedByDistance(_)
SortedByDistance(frame) ==
    IF frame = <<>> THEN <<>>
    ELSE LET i == CHOOSE i \in DOMAIN frame :
                    \A j \in DOMAIN frame :
                       \/ frame[i].Distance < frame[j].Distance
                       \/ frame[i].Distance = frame[j].Distance /\ i <= j
         IN <<frame[i]>>
            \o SortedByDistance(SubSeq(frame, 1, i - 1)
                                \o SubSeq(frame, i + 1, Len(frame)))

\* np.linspace(lo, hi, NumSamples)
linspace(lo, hi) ==
    {lo + ((i - 1) * (hi - lo)) \div (NumSamples - 1) : i \in 1..NumSamples}

SetMin(S) == CHOOSE x \in S : \A y \in S : x <= y
SetMax(S) == CHOOSE x \in S : \A y \in S : x >= y

\* the limits of the distance axis: <<plot_min_dist, plot_max_dist>>
plot_limits(pareto, targets) ==
    LET dists == {pareto[i].Distance : i \in DOMAIN pareto}
                 \cup {targets[i].Distance : i \in DOMAIN targets}
        min_dist == SetMin(dists)
        max_dist == SetMax(dists)
        lows == {(min_dist * 7) \div 10}
                \cup {(r * 85) \div 100 : r \in {r \in race_distances : r <= max_dist}}
        highs == {(max_dist * 13) \div 10}
                 \cup {(r * 115) \div 100 : r \in {r \in race_distances : r >= min_dist}}
    IN <<SetMin(lows), SetMax(highs)>>

\* anchor * (d / anchor_distance) ** k for the whole exponent k
Power(anchor, anchor_distance, d, k) ==
    IF k = 0 THEN anchor
    ELSE IF k = 1 THEN (anchor * d) \div anchor_distance
    ELSE (((anchor * d) \div anchor_distance) * d) \div anchor_distance

\* the Pareto point with the lowest Speed taken
idxmin_speed(pareto) ==
    CHOOSE i \in DOMAIN pareto :
        \A j \in DOMAIN pareto :
            \/ pareto[j].Speed > pareto[i].Speed
            \/ pareto[j].Speed = pareto[i].Speed /\ i <= j

\* df_pareto["Speed"].idxmax(): the first row holding the highest Speed
idxmax_speed(pareto) ==
    CHOOSE i \in DOMAIN pareto :
        \A j \in DOMAIN pareto :
            \/ pareto[j].Speed < pareto[i].Speed
            \/ pareto[j].Speed = pareto[i].Speed /\ i <= j

\* what a plot of the kind "time" or "pace" draws of a row: its Duration or
\* its Pace
Val(row, kind) == IF kind = "time" THEN Duration(row) ELSE row.Pace

\* no curve drawn
NoCurve == [x |-> <<>>, y |-> <<>>]

\* the best curve: anchored at the Pareto point of idxmax, sampled at the
\* evenly spaced distances and at the anchor's distance, the value at the
\* anchor's distance then set to the anchor's value; k is 1 + exponent on
\* the time plot and the exponent on the pace plot
best_curve_of(pareto, limits, kind, k) ==
    LET anchor == pareto[idxmax_speed(pareto)]
        best_distance == anchor.Distance
        x_vals == Sorted(linspace(limits[1], limits[2]) \cup {best_distance})
        y_vals == [i \in DOMAIN x_vals |->
                      Power(Val(anchor, kind), best_distance, x_vals[i], k)]
        anchor_idx == CHOOSE i \in DOMAIN x_vals : x_vals[i] = best_distance
    IN [x |-> x_vals, y |-> [y_vals EXCEPT ![anchor_idx] = Val(anchor, kind)]]

\* curve_score_time / curve_score_pace: <<sample_points, y_curve, mean>>
curve_score(anchor_distance, anchor_val, target_dists, limits, k) ==
    LET sample_points == Sorted(linspace(limits[1], limits[2])
                                \cup Range(target_dists) \cup {anchor_distance})
        y_curve == [i \in DOMAIN sample_points |->
                      Power(anchor_val, anchor_distance, sample_points[i], k)]
    IN <<sample_points, y_curve, SumSeq(y_curve) \div Len(y_curve)>>

\* the target curve: the first target, in ascending Distance, whose curve
\* has a mean above that of every target before it and not below that of
\* any target after it; its value at the anchor's distance set to the
\* anchor's value
target_curve_of(targets, limits, kind, k) ==
    LET sorted == SortedByDistance(targets)
        target_dists == [i \in DOMAIN sorted |-> sorted[i].Distance]
        score(i) == curve_score(sorted[i].Distance, Val(sorted[i], kind),
                                target_dists, limits, k)
        anchor_idx == CHOOSE i \in DOMAIN sorted :
                         /\ \A j \in 1..(i - 1) : score(j)[3] < score(i)[3]
                         /\ \A j \in (i + 1)..Len(sorted) : score(j)[3] <= score(i)[3]
        best_curve == score(anchor_idx)
        x_vals == best_curve[1]
        at == CHOOSE i \in DOMAIN x_vals : x_vals[i] = sorted[anchor_idx].Distance
    IN [x |-> x_vals,
        y |-> [best_curve[2] EXCEPT ![at] = Val(sorted[anchor_idx], kind)],
        anchor |-> sorted[anchor_idx]]

\* the figure of a call: ValueError for an empty df_pareto; no curve where
\* no Pareto point of the Exercise is left (the axis limits are NaN then)
figure_of(pareto, targets, Exercise, kind, exponent, k) ==
    LET of_pareto == SelectSeq(pareto, LAMBDA r : r.Exercise = Exercise)
        of_targets == SelectSeq(targets, LAMBDA r : r.Exercise = Exercise)
        limits == plot_limits(of_pareto, of_targets)
    IN IF pareto = <<>> THEN [raised |-> TRUE]
       ELSE [raised |-> FALSE,
             exponent |-> exponent,
             best |-> IF of_pareto = <<>> THEN NoCurve
                      ELSE best_curve_of(of_pareto, limits, kind, k),
             target |-> IF of_pareto = <<>> \/ of_targets = <<>> THEN NoCurve
                        ELSE target_curve_of(of_targets, limits, kind, k)]

plot_running_df(pareto, targets, Exercise, exponent) ==
    figure_of(pareto, targets, Exercise, "time", exponent, 1 + exponent)

plot_running_pace_df(pareto, targets, Exercise, exponent) ==
    figure_of(pareto, targets, Exercise, "pace", exponent, exponent)

InitRunning ==
    /\ rm_cache = <<>>
    /\ df = <<>>
    /\ \E n \in 0..MaxParetoPoints : \E cs \in [1..n -> ParetoCols] :
          df_records = RunFrame(cs)
    /\ \E n \in 0..MaxRunTargets : \E cs \in [1..n -> TargetCols] :
          df_targets = RunFrame(cs)
    /\ df_again = <<>>
    /\ value = PyNone
    /\ reps = PyNone
    /\ first = PyNone
    /\ second = PyNone
    /\ calls = <<>>
    /\ viewer = <<>>
    /\ pc = "running"

\* fig = plot_running_df(df_pareto=df_records, df_targets=df_targets,
\*                       Exercise="Run")
PlotRunningDf ==
    /\ pc = "running"
    /\ \E exponent \in RiegelExponents :
          viewer' = plot_running_df(df_records, df_targets, "Run", exponent)
    /\ pc' = "time_plotted"
    /\ UNCHANGED <<df, df_records, df_targets, df_again, rm_cache, value, reps,
                   first, second, calls>>

\* fig = plot_running_pace_df(df_pareto=df_records, df_targets=df_targets,
\*                            Exercise="Run")
PlotRunningPaceDf ==
    /\ pc = "running"
    /\ \E exponent \in RiegelExponents :
          viewer' = plot_running_pace_df(df_records, df_targets, "Run", exponent)
    /\ pc' = "pace_plotted"
    /\ UNCHANGED <<df, df_records, df_targets, df_again, rm_cache, value, reps,
                   first, second, calls>>

NextRunning == PlotRunningDf \/ PlotRunningPaceDf

SpecRunning == InitRunning /\ [][NextRunning]_vars

(***************************************************************************)
(* C26: the curves of the running plots pass through their anchors.        *)
(***************************************************************************)
\* the Pareto points and the targets of the plotted Exercise
RunPoints == SelectSeq(df_records, LAMBDA r : r.Exercise = "Run")
RunTargets == SelectSeq(df_targets, LAMBDA r : r.Exercise = "Run")

\* what the plotted figure shows of a row: its Duration on the time plot,
\* its Pace on the pace plot
Shown(row) == IF pc = "time_plotted" THEN Duration(row) ELSE row.Pace

\* the curve c has the point (d, v)
PassesThrough(c, d, v) == \E n \in DOMAIN c.x : c.x[n] = d /\ c.y[n] = v

\* the mean of the curve anchored at the target t, as the figure scores it
MeanOfCurveAt(t) ==
    LET sorted == SortedByDistance(RunTargets)
    IN curve_score(t.Distance, Shown(t),
                   [i \in DOMAIN sorted |-> sorted[i].Distance],
                   plot_limits(RunPoints, RunTargets),
                   IF pc = "time_plotted" THEN 1 + viewer.exponent
                   ELSE viewer.exponent)[3]

\* C26: in the figure of plot_running_df and of plot_running_pace_df the
\* best curve is drawn whenever the Exercise has a Pareto point, the distance
\* of the (first) Pareto point of highest Speed is one of its sample
\* distances and its value there is exactly that point's Duration (resp.
\* Pace); the target curve, where drawn, passes exactly through its anchor,
\* which is a target of the Exercise whose curve has the highest mean.
C26_CurvesAnchored ==
    (pc \in {"time_plotted", "pace_plotted"} /\ ~viewer.raised) =>
        /\ \A i \in DOMAIN RunPoints :
              (\A j \in DOMAIN RunPoints :
                  \/ RunPoints[j].Speed < RunPoints[i].Speed
                  \/ RunPoints[j].Speed = RunPoints[i].Speed /\ i <= j)
              => PassesThrough(viewer.best, RunPoints[i].Distance,
                               Shown(RunPoints[i]))
        /\ (RunPoints # <<>> /\ RunTargets # <<>>) => viewer.target # NoCurve
        /\ viewer.target # NoCurve =>
              /\ viewer.target.anchor \in Range(RunTargets)
              /\ PassesThrough(viewer.target, viewer.target.anchor.Distance,
                               Shown(viewer.target.anchor))
              /\ \A t \in Range(RunTargets) :
                    MeanOfCurveAt(t) <= MeanOfCurveAt(viewer.target.anchor)

\* a time plot of two Pareto points, the faster one second, and of two
\* targets of which the anchor is the second and has the higher mean
C26_Witness ==
    /\ pc = "time_plotted"
    /\ ~viewer.raised
    /\ Len(RunPoints) = 2
    /\ RunPoints[2].Speed > RunPoints[1].Speed
    /\ PassesThrough(viewer.best, RunPoints[2].Distance, Duration(RunPoints[2]))
    /\ ~PassesThrough(viewer.best, RunPoints[1].Distance, Duration(RunPoints[1]))
    /\ Len(RunTargets) = 2
    /\ viewer.target # NoCurve
    /\ viewer.target.anchor = RunTargets[2]
    /\ MeanOfCurveAt(RunTargets[1]) < MeanOfCurveAt(RunTargets[2])

====
